---------------------------- MODULE Spec2Model ----------------------------
(***************************************************************************)
(* Model of the issue tracker of src/app.py: the Issue table, the upload   *)
(* directory and the HTTP handlers that read and write them.               *)
(*                                                                         *)
(* A Python string is a sequence of one-character strings, so that         *)
(* str.strip, len, rsplit and lower are computed rather than assumed.      *)
(* Python's None is the value None below.                                  *)
(***************************************************************************)
EXTENDS Integers, Sequences, FiniteSets, TLC

\* ------------------------------------------------------------ bounds
\* Requests handled at once when handlers interleave.
NumWorkers == 2
\* Rows inserted over a run (each insert takes the next clock reading).
MaxClock == 2
\* Stored names generated over a run (one uuid4 per saved file).
MaxUuid == 2
\* PATCH requests that reach the commit over a run.
MaxPatches == 1
\* Requests started over a run of interleaved handlers.
MaxStarted == 4

\* ------------------------------------------------------------ strings
None == <<"None">>

Whitespace == {" ", "\t", "\n"}

RECURSIVE lstrip(_)
lstrip(s) ==
  IF s # <<>> /\ Head(s) \in Whitespace THEN lstrip(Tail(s)) ELSE s

RECURSIVE rstrip(_)
rstrip(s) ==
  IF s # <<>> /\ s[Len(s)] \in Whitespace
    THEN rstrip(SubSeq(s, 1, Len(s) - 1)) ELSE s

\* str.strip()
strip(s) == rstrip(lstrip(s))

\* Python's `x or d`: None and the empty string are falsy
OrElse(x, d) == IF x = None \/ x = <<>> THEN d ELSE x

\* Mapping.get(key): None when the key is absent
Get(data, key) == IF key \in DOMAIN data THEN data[key] ELSE None

UpperCase ==
  <<"A","B","C","D","E","F","G","H","I","J","K","L","M",
    "N","O","P","Q","R","S","T","U","V","W","X","Y","Z">>
LowerCase ==
  <<"a","b","c","d","e","f","g","h","i","j","k","l","m",
    "n","o","p","q","r","s","t","u","v","w","x","y","z">>

lowerChar(c) ==
  IF \E k \in 1..26 : UpperCase[k] = c
    THEN LowerCase[CHOOSE k \in 1..26 : UpperCase[k] = c] ELSE c

\* str.lower()
lower(s) == [k \in 1..Len(s) |-> lowerChar(s[k])]

\* n copies of the character c
Rep(c, n) == [k \in 1..n |-> c]

\* ------------------------------------------------------------ config
ALLOWED_TRACKS ==
  { <<"A","P">>, <<"R","P">>, <<"C","o","m","m","o","n">>,
    <<"L","I">>, <<"E","S">> }
ALLOWED_STATUS ==
  { <<"O","p","e","n">>, <<"F","i","x","e","d">>,
    <<"D","e","p","l","o","y","e","d">>, <<"C","l","o","s","e","d">> }
ALLOWED_EXTENSIONS ==
  { <<"p","n","g">>, <<"j","p","g">>, <<"j","p","e","g">>, <<"g","i","f">>,
    <<"w","e","b","p">>, <<"b","m","p">>, <<"p","d","f">> }
MAX_ATTACHMENTS == 5
MAX_SUMMARY == 250

\* ------------------------------------------------------------ helpers
\* filename.rsplit('.', 1)[1]: the text after the last dot
AfterLastDot(s) ==
  LET dots == {k \in 1..Len(s) : s[k] = "."}
      last == CHOOSE k \in dots : \A j \in dots : j <= k
  IN  SubSeq(s, last + 1, Len(s))

allowed_file(filename) ==
  /\ \E k \in 1..Len(filename) : filename[k] = "."
  /\ lower(AfterLastDot(filename)) \in ALLOWED_EXTENSIONS

SafeChars ==
  {UpperCase[k] : k \in 1..26} \cup {LowerCase[k] : k \in 1..26}
    \cup {"0","1","2","3","4","5","6","7","8","9","_",".","-"}

RECURSIVE StripEnds(_)
StripEnds(s) ==
  IF s # <<>> /\ Head(s) \in {".", "_"} THEN StripEnds(Tail(s))
  ELSE IF s # <<>> /\ s[Len(s)] \in {".", "_"}
    THEN StripEnds(SubSeq(s, 1, Len(s) - 1))
  ELSE s

\* werkzeug's secure_filename on names without whitespace: path separators
\* and unsafe characters go, then leading and trailing dots and underscores
secure_filename(s) == StripEnds(SelectSeq(s, LAMBDA c : c \in SafeChars))

\* f"{uuid.uuid4().hex}_{secure_filename(f.filename)}": the n-th token
\* generated stands for the n-th uuid4, which never repeats
StoredName(n, filename) == <<ToString(n), "_">> \o secure_filename(filename)

\* json.dumps / json.loads of the attachments column
json_dumps(list) == <<"json", list>>
json_loads(text) == text[2]


\* ------------------------------------------------------------ state
VARIABLES
  issues,    \* the Issue table: id -> row
  uploads,   \* names of the files in UPLOAD_FOLDER
  uuids,     \* uuid4 tokens generated so far
  now,       \* clock readings taken so far (datetime.utcnow at insert)
  patches,   \* PATCH requests committed so far
  last,      \* the route handled last: [op, id]
  resp,      \* its response: [code, kind, body]
  workers,   \* the requests in flight when handlers interleave
  started,   \* how many interleaved requests have started
  overlap    \* history of the requests in flight together: "none" so far,
             \* "disjoint" (never two on one issue) or "same"

vars ==
  <<issues, uploads, uuids, now, patches, last, resp, workers, overlap,
    started>>

\* the fields update_issue walks, in its order
UPDATABLE ==
  <<"track", "summary", "description", "raised_by", "assignee", "status",
    "scenario_id", "step_no">>

\* json.loads(issue.attachments) if issue.attachments else []
attachments_of(issue) ==
  IF issue.attachments = None \/ issue.attachments = <<>> THEN <<>>
  ELSE json_loads(issue.attachments)

Range(seq) == {seq[k] : k \in 1..Len(seq)}

to_dict(issue) ==
  [ id |-> issue.id, track |-> issue.track, summary |-> issue.summary,
    description |-> issue.description,
    attachments |-> attachments_of(issue),
    raised_by |-> issue.raised_by, assignee |-> issue.assignee,
    status |-> issue.status, scenario_id |-> issue.scenario_id,
    step_no |-> issue.step_no,
    created_at |-> [isoformat |-> issue.created_at, suffix |-> "Z"] ]

Response(code, kind, body) == [code |-> code, kind |-> kind, body |-> body]
Route(op, id) == [op |-> op, id |-> id]

\* the integer primary key of an insert: one more than the largest rowid
NextId ==
  IF DOMAIN issues = {} THEN 1
  ELSE 1 + (CHOOSE m \in DOMAIN issues : \A j \in DOMAIN issues : j <= m)

\* f and f.filename and allowed_file(f.filename); an upload is its filename
Accepted(f) == f # <<>> /\ allowed_file(f)

RECURSIVE SaveEach(_, _)
SaveEach(files, n) ==
  IF files = <<>> THEN <<>>
  ELSE IF Accepted(Head(files))
    THEN <<StoredName(n + 1, Head(files))>> \o SaveEach(Tail(files), n + 1)
    ELSE SaveEach(Tail(files), n)

\* the stored names save_attachments returns (and writes) for `files`,
\* n tokens having been generated before
save_attachments(files, n) ==
  SaveEach(SubSeq(files, 1,
             IF Len(files) < MAX_ATTACHMENTS THEN Len(files)
                                             ELSE MAX_ATTACHMENTS), n)

\* RemoveFiles, the files left in place
RemoveFiles_Keep(dir, names) == dir

\* os.remove of each name, a missing file being no error
RemoveFiles(dir, names) == dir \ names

\* CreateError without the status check
CreateError_NoStatus(track, status, summary, files) ==
  IF track \notin ALLOWED_TRACKS THEN "Invalid track"
  ELSE IF summary = <<>> \/ Len(summary) > MAX_SUMMARY
    THEN "Summary is required and must be <= 250 chars"
  ELSE IF Len(files) > MAX_ATTACHMENTS THEN "Max 5 attachments allowed"
  ELSE ""

\* CreateError with the summary checked only for its length
CreateError_NoEmpty(track, status, summary, files) ==
  IF track \notin ALLOWED_TRACKS THEN "Invalid track"
  ELSE IF status \notin ALLOWED_STATUS THEN "Invalid status"
  ELSE IF Len(summary) > MAX_SUMMARY
    THEN "Summary is required and must be <= 250 chars"
  ELSE IF Len(files) > MAX_ATTACHMENTS THEN "Max 5 attachments allowed"
  ELSE ""

\* the 400 of add_issue, "" when the request is valid
CreateError(track, status, summary, files) ==
  IF track \notin ALLOWED_TRACKS THEN "Invalid track"
  ELSE IF status \notin ALLOWED_STATUS THEN "Invalid status"
  ELSE IF summary = <<>> \/ Len(summary) > MAX_SUMMARY
    THEN "Summary is required and must be <= 250 chars"
  ELSE IF Len(files) > MAX_ATTACHMENTS THEN "Max 5 attachments allowed"
  ELSE ""

\* (data.get(key) or default).strip(): a field as add_issue reads it
Field(data, key, default) == strip(OrElse(Get(data, key), default))

\* the row add_issue builds from the form, before the insert
NewIssue(data, filenames) ==
  [ id |-> NextId,
    track |-> Field(data, "track", <<>>),
    summary |-> Field(data, "summary", <<>>),
    description |-> Field(data, "description", <<>>),
    attachments |-> json_dumps(filenames),
    raised_by |-> Field(data, "raised_by", <<>>),
    assignee |-> Field(data, "assignee", <<>>),
    status |-> Field(data, "status", <<"O","p","e","n">>),
    scenario_id |-> Field(data, "scenario_id", <<>>),
    step_no |-> Field(data, "step_no", <<>>),
    created_at |-> now + 1 ]

Init ==
  /\ issues = << >>
  /\ uploads = {}
  /\ uuids = 0
  /\ now = 0
  /\ patches = 0
  /\ last = Route("start", 0)
  /\ resp = Response(0, "none", "")
  /\ workers = << >>
  /\ overlap = "none"
  /\ started = 0

\* POST /issues
add_issue(data, files) ==
  LET draft == NewIssue(data, <<>>)
      error == CreateError(draft.track, draft.status, draft.summary, files)
      filenames == save_attachments(files, uuids)
      issue == NewIssue(data, filenames)
  IN  /\ last' = Route("add_issue", 0)
      /\ IF error # ""
           THEN /\ resp' = Response(400, "error", error)
                /\ UNCHANGED <<issues, uploads, uuids, now>>
           ELSE /\ now < MaxClock
                /\ uuids + Len(filenames) <= MaxUuid
                /\ uploads' = uploads \cup Range(filenames)
                /\ uuids' = uuids + Len(filenames)
                /\ issues' = (issue.id :> issue) @@ issues
                /\ now' = now + 1
                /\ resp' = Response(201, "issue", to_dict(issue))
      /\ UNCHANGED <<patches, workers, overlap, started>>

\* InvalidStatus on the stripped value, as add_issue checks it
InvalidStatus_Stripped(field, value) ==
  field = "status" /\ strip(OrElse(value, <<>>)) \notin ALLOWED_STATUS

\* the status check of update_issue's loop
InvalidStatus(field, value) ==
  field = "status" /\ value \notin ALLOWED_STATUS

\* setattr(issue, field, (data[field] or "").strip())
SetField(issue, field, value) ==
  [issue EXCEPT ![field] = strip(OrElse(value, <<>>))]

\* SetFields assigning every field, an absent one as data.get gives it
RECURSIVE SetFields_Every(_, _, _)
SetFields_Every(issue, data, k) ==
  IF k > Len(UPDATABLE) THEN [issue |-> issue, error |-> FALSE]
  ELSE LET field == UPDATABLE[k]
       IN  IF field \in DOMAIN data /\ InvalidStatus(field, data[field])
             THEN [issue |-> issue, error |-> TRUE]
           ELSE SetFields_Every(SetField(issue, field, Get(data, field)),
                                data, k + 1)

\* update_issue's loop from the k-th field on: the issue as assigned so far
\* and whether the loop returned the 400
RECURSIVE SetFields(_, _, _)
SetFields(issue, data, k) ==
  IF k > Len(UPDATABLE) THEN [issue |-> issue, error |-> FALSE]
  ELSE LET field == UPDATABLE[k]
       IN  IF field \notin DOMAIN data THEN SetFields(issue, data, k + 1)
           ELSE IF InvalidStatus(field, data[field])
             THEN [issue |-> issue, error |-> TRUE]
           ELSE SetFields(SetField(issue, field, data[field]), data, k + 1)

\* AppendFiles with the new names in place of the existing ones
AppendFiles_Replace(issue, new_files, saved) ==
  IF new_files = <<>> THEN issue
  ELSE [issue EXCEPT !.attachments = json_dumps(saved)]

\* issue.attachments = json.dumps(existing + save_attachments(new_files)),
\* when new_files is not empty
AppendFiles(issue, new_files, saved) ==
  IF new_files = <<>> THEN issue
  ELSE [issue EXCEPT !.attachments = json_dumps(attachments_of(issue) \o saved)]

\* request.form or request.json is unusable: the form is empty and the body
\* is no JSON document, so request.json is refused (415) or yields None,
\* on which the loop's `field in data` raises (500)
NoData(body, data) == body = "form" /\ DOMAIN data = {}

\* PATCH /issues/<id>; body is "form" (a form, with or without files) or
\* "json", data the fields it carries
update_issue(id, body, data, files) ==
  /\ last' = Route("update_issue", id)
  /\ IF id \notin DOMAIN issues
       THEN /\ resp' = Response(404, "error", "Not Found")
            /\ UNCHANGED <<issues, uploads, uuids, patches>>
     ELSE IF NoData(body, data)
       THEN /\ \E code \in {415, 500} : resp' = Response(code, "error", "")
            /\ UNCHANGED <<issues, uploads, uuids, patches>>
     ELSE LET set == SetFields(issues[id], data, 1)
              saved == save_attachments(files, uuids)
              issue == AppendFiles(set.issue, files, saved)
          IN  IF set.error
                THEN /\ resp' = Response(400, "error", "Invalid status")
                     /\ UNCHANGED <<issues, uploads, uuids, patches>>
                ELSE /\ patches < MaxPatches
                     /\ uuids + Len(saved) <= MaxUuid
                     /\ uploads' = uploads \cup Range(saved)
                     /\ uuids' = uuids + Len(saved)
                     /\ issues' = [issues EXCEPT ![id] = issue]
                     /\ patches' = patches + 1
                     /\ resp' = Response(200, "issue", to_dict(issue))
  /\ UNCHANGED <<now, workers, overlap, started>>

\* the table without row id
DeleteRow(table, id) == [j \in DOMAIN table \ {id} |-> table[j]]

\* DELETE /issues/<id>
delete_issue(id) ==
  /\ last' = Route("delete_issue", id)
  /\ IF id \notin DOMAIN issues
       THEN /\ resp' = Response(404, "error", "Not Found")
            /\ UNCHANGED <<issues, uploads>>
       ELSE /\ uploads' = RemoveFiles(uploads, Range(attachments_of(issues[id])))
            /\ issues' = DeleteRow(issues, id)
            /\ resp' = Response(200, "message", "Issue deleted")
  /\ UNCHANGED <<uuids, now, patches, workers, overlap, started>>

\* list.remove(x): the list without its first x
RECURSIVE ListRemove(_, _)
ListRemove(list, x) ==
  IF list = <<>> THEN <<>>
  ELSE IF Head(list) = x THEN Tail(list)
  ELSE <<Head(list)>> \o ListRemove(Tail(list), x)

\* Listed without the membership test
Listed_Always(issue, filename) == TRUE

\* whether delete_attachment detaches: filename in files
Listed(issue, filename) == filename \in Range(attachments_of(issue))

\* DELETE /issues/<id>/attachments/<filename>
delete_attachment(id, filename) ==
  /\ last' = Route("delete_attachment", id)
  /\ IF id \notin DOMAIN issues
       THEN /\ resp' = Response(404, "error", "Not Found")
            /\ UNCHANGED <<issues, uploads>>
     ELSE IF Listed(issues[id], filename)
       THEN LET files == ListRemove(attachments_of(issues[id]), filename)
                issue == [issues[id] EXCEPT !.attachments = json_dumps(files)]
            IN  /\ issues' = [issues EXCEPT ![id] = issue]
                /\ uploads' = RemoveFiles(uploads, {filename})
                /\ resp' = Response(200, "issue", to_dict(issue))
     ELSE /\ resp' = Response(200, "issue", to_dict(issues[id]))
          /\ UNCHANGED <<issues, uploads>>
  /\ UNCHANGED <<uuids, now, patches, workers, overlap, started>>

\* GET /uploads/<filename>
uploaded_file(filename) ==
  /\ last' = Route("uploaded_file", 0)
  /\ resp' = IF filename \notin uploads
               THEN Response(404, "error", "Not Found")
               ELSE Response(200, "file", filename)
  /\ UNCHANGED <<issues, uploads, uuids, now, patches, workers, overlap,
               started>>

\* the rows with id at most n, largest id first
RECURSIVE Descending(_, _)
Descending(table, n) ==
  IF n = 0 THEN <<>>
  ELSE (IF n \in DOMAIN table THEN <<to_dict(table[n])>> ELSE <<>>)
         \o Descending(table, n - 1)

\* GET /issues
get_issues ==
  /\ last' = Route("get_issues", 0)
  /\ resp' = Response(200, "list", Descending(issues, NextId - 1))
  /\ UNCHANGED <<issues, uploads, uuids, now, patches, workers, overlap,
               started>>

\* ------------------------------------------------------------ requests
Open == <<"O","p","e","n">>
Fixed == <<"F","i","x","e","d">>
Closed == <<"C","l","o","s","e","d">>
InProgress == <<"I","n","P","r","o","g","r","e","s","s">>

\* uploads, by filename
Png == <<"a",".","p","n","g">>
Exe == <<"n",".","e","x","e">>
Pdf == <<".",".","/","B",".","P","D","F">>
NoExt == <<"n","o","e","x","t">>

\* the least form a valid create needs
Minimal == ("track" :> <<"A","P">>) @@ ("summary" :> <<"a","b">>)

\* every field, padded with whitespace; the summary is MAX_SUMMARY
\* characters once stripped
Padded ==
  ("track" :> <<" ","R","P"," ">>)
    @@ ("summary" :> <<" ">> \o Rep("s", MAX_SUMMARY) \o <<"\n">>)
    @@ ("description" :> <<" ","d"," ">>) @@ ("raised_by" :> <<"r">>)
    @@ ("assignee" :> <<"a">>) @@ ("status" :> <<" ">> \o Fixed \o <<" ">>)
    @@ ("scenario_id" :> <<"S","1">>) @@ ("step_no" :> <<"7">>)

Request(data, files) == [data |-> data, files |-> files]

\* create requests that fail validation
BadCreates ==
  { Request(("track" :> <<"X","X">>) @@ Minimal, <<Png>>),
    Request(("summary" :> <<"a","b">>), <<>>),
    Request(("track" :> <<"A","P">>), <<Png>>),
    Request(("summary" :> <<" ","\t">>) @@ Minimal, <<Png>>),
    Request(("summary" :> Rep("s", MAX_SUMMARY + 1)) @@ Minimal, <<>>),
    Request(("status" :> InProgress) @@ Minimal, <<Png>>),
    Request(("status" :> InProgress) @@ Padded, <<>>),
    Request(Minimal, [k \in 1..(MAX_ATTACHMENTS + 1) |-> Png]) }

\* PATCH forms with a status outside ALLOWED_STATUS
BadPatches ==
  { Request(("status" :> InProgress), <<>>),
    Request(("status" :> <<" ">> \o Open), <<Png>>),
    Request(("track" :> <<"L","I">>) @@ ("summary" :> <<"c","d">>)
              @@ ("status" :> InProgress) @@ ("step_no" :> <<"9">>), <<Png>>) }

\* --- requests of Spec: the attachments of issues and the upload folder
CreateRequests ==
  { Request(Minimal, <<>>),
    Request(Minimal, <<Png>>),
    Request(Minimal, <<Exe, Pdf>>),
    Request(("track" :> <<"X","X">>) @@ Minimal, <<Png>>),
    Request(Minimal, [k \in 1..(MAX_ATTACHMENTS + 1) |-> Png]) }

PatchRequests ==
  { Request(("assignee" :> <<" ","y"," ">>), <<Png>>),
    Request(("assignee" :> <<" ","y"," ">>), <<NoExt>>),
    Request(("status" :> InProgress), <<Png>>),
    Request(<< >>, <<Png>>) }

\* --- requests of SpecFields: the fields of issues
FieldCreates ==
  { Request(Minimal, <<>>),
    Request(Minimal @@ ("status" :> <<>>), <<>>),
    Request(Padded, <<Png>>) } \cup BadCreates

FieldPatches ==
  { Request(("assignee" :> <<" ","y"," ">>), <<>>),
    Request(("status" :> Closed), <<NoExt>>),
    Request(("track" :> <<"X","X">>), <<>>),
    Request(("summary" :> <<" ">>), <<>>),
    Request(("summary" :> Rep("s", MAX_SUMMARY + 1)), <<>>),
    Request(<< >>, <<>>) } \cup BadPatches

\* JSON documents a client sends with PATCH /issues/<id>
PatchJson ==
  { << >>,
    ("description" :> None),
    ("status" :> None) @@ ("raised_by" :> <<"q">>) }

\* the ids a request names: every row's and one that has none
Ids == DOMAIN issues \cup {NextId}

\* the filenames a request names: the stored names generated so far and
\* one never generated
Filenames ==
  { StoredName(n, f) : n \in 1..uuids, f \in {Png, Pdf} }
    \cup { <<"z",".","p","n","g">> }

Next ==
  \/ \E r \in CreateRequests : add_issue(r.data, r.files)
  \/ \E id \in Ids, r \in PatchRequests :
       update_issue(id, "form", r.data, r.files)
  \/ \E id \in Ids : delete_issue(id)
  \/ \E id \in Ids, filename \in Filenames : delete_attachment(id, filename)
  \/ \E filename \in Filenames : uploaded_file(filename)
  \/ get_issues

Spec == Init /\ [][Next]_vars

NextFields ==
  \/ \E r \in FieldCreates : add_issue(r.data, r.files)
  \/ \E id \in Ids, r \in FieldPatches :
       update_issue(id, "form", r.data, r.files)
  \/ \E id \in Ids, data \in PatchJson : update_issue(id, "json", data, <<>>)

SpecFields == Init /\ [][NextFields]_vars

\* ------------------------------------------------------------ interleaving
\* Handlers running at once: each worker runs one handler in the steps that
\* touch the table or the upload folder: the SELECT of get_or_404, the
\* writes and removals of files, the commit. A worker's session holds the
\* row as it loaded it; nothing locks a row or a file.
Workers == 1..NumWorkers

Idle ==
  [ pc |-> "idle", id |-> 0, issue |-> << >>, loaded |-> << >>,
    files |-> << >>, filename |-> << >> ]

Busy == {w \in Workers : workers[w].pc # "idle"}

\* a request is taken by the first idle worker
Free(w) ==
  /\ started < MaxStarted
  /\ workers[w].pc = "idle"
  /\ \A v \in Workers \ Busy : w <= v

\* whether worker w still has files to save
Saving(w) == workers[w].pc = "update_save" /\ workers[w].files # << >>

\* the history of overlaps once a request on row id (0: a create) starts
Overlap(w, id) ==
  IF \E v \in Busy \ {w} : id # 0 /\ workers[v].id = id THEN "same"
  ELSE IF Busy \ {w} # {} /\ overlap = "none" THEN "disjoint"
  ELSE overlap

\* requests of SpecConc, each with at most one file
ConcCreates == { Request(Minimal, <<>>), Request(Minimal, <<Png>>) }
ConcPatches == { Request(("assignee" :> <<" ","y"," ">>), <<Png>>) }

InitConc ==
  /\ issues = << >>
  /\ uploads = {}
  /\ uuids = 0
  /\ now = 0
  /\ patches = 0
  /\ last = Route("start", 0)
  /\ resp = Response(0, "none", "")
  /\ workers = [w \in Workers |-> Idle]
  /\ overlap = "none"
  /\ started = 0

\* add_issue to the return of save_attachments: validation, then the files
add_issue_save(w, data, files) ==
  LET draft == NewIssue(data, <<>>)
      error == CreateError(draft.track, draft.status, draft.summary, files)
      filenames == save_attachments(files, uuids)
  IN  /\ Free(w)
      /\ error = ""
      /\ now + Cardinality({v \in Busy : workers[v].pc = "add_commit"})
           < MaxClock
      /\ uuids + Cardinality({v \in Busy : Saving(v)}) + Len(filenames)
           <= MaxUuid
      /\ uploads' = uploads \cup Range(filenames)
      /\ uuids' = uuids + Len(filenames)
      /\ workers' = [workers EXCEPT ![w] =
           [Idle EXCEPT !.pc = "add_commit",
                        !.issue = NewIssue(data, filenames)]]
      /\ overlap' = Overlap(w, 0)
      /\ started' = started + 1
      /\ UNCHANGED <<issues, now, patches, last, resp>>

\* add_issue's insert and commit: the id and created_at are the insert's
add_issue_commit(w) ==
  /\ workers[w].pc = "add_commit"
  /\ LET issue == [workers[w].issue EXCEPT !.id = NextId,
                                           !.created_at = now + 1]
     IN  issues' = (issue.id :> issue) @@ issues
  /\ now' = now + 1
  /\ workers' = [workers EXCEPT ![w] = Idle]
  /\ UNCHANGED <<uploads, uuids, patches, last, resp, overlap, started>>

\* update_issue to the end of its loop: the row is loaded into the session
\* and the fields are set there
update_issue_load(w, id, data, files) ==
  /\ Free(w)
  /\ id \in DOMAIN issues
  /\ ~NoData("form", data)
  /\ ~SetFields(issues[id], data, 1).error
  /\ patches + Cardinality({v \in Busy :
         workers[v].pc \in {"update_save", "update_commit"}}) < MaxPatches
  /\ uuids + Cardinality({v \in Busy : Saving(v)})
       + Len(save_attachments(files, 0)) <= MaxUuid
  /\ workers' = [workers EXCEPT ![w] =
       [Idle EXCEPT !.pc = "update_save", !.id = id,
                    !.issue = SetFields(issues[id], data, 1).issue,
                    !.loaded = issues[id], !.files = files]]
  /\ overlap' = Overlap(w, id)
  /\ started' = started + 1
  /\ UNCHANGED <<issues, uploads, uuids, now, patches, last, resp>>

\* update_issue's save of the new files, appended to the list it loaded
update_issue_save(w) ==
  /\ workers[w].pc = "update_save"
  /\ LET saved == save_attachments(workers[w].files, uuids)
     IN  /\ uploads' = uploads \cup Range(saved)
         /\ uuids' = uuids + Len(saved)
         /\ workers' = [workers EXCEPT ![w] =
              [@ EXCEPT !.pc = "update_commit", !.files = << >>,
                        !.issue = AppendFiles(@, workers[w].files, saved)]]
  /\ UNCHANGED <<issues, now, patches, last, resp, overlap, started>>

\* the columns a session changed since it loaded the row
Changed(loaded, issue) == {f \in DOMAIN issue : issue[f] # loaded[f]}

\* a commit that writes nothing
CommitUpdate_Lost(table, id, loaded, issue) == table

\* UPDATE issue SET <the changed columns> WHERE id = ...: no statement when
\* nothing changed, no effect (StaleDataError, a 500) when no row has the id
CommitUpdate(table, id, loaded, issue) ==
  IF Changed(loaded, issue) = {} \/ id \notin DOMAIN table THEN table
  ELSE [table EXCEPT ![id] =
         [f \in DOMAIN @ |-> IF f \in Changed(loaded, issue)
                               THEN issue[f] ELSE @[f]]]

\* update_issue's commit
update_issue_commit(w) ==
  /\ workers[w].pc = "update_commit"
  /\ issues' = CommitUpdate(issues, workers[w].id, workers[w].loaded,
                            workers[w].issue)
  /\ patches' = patches + 1
  /\ workers' = [workers EXCEPT ![w] = Idle]
  /\ UNCHANGED <<uploads, uuids, now, last, resp, overlap, started>>

\* delete_issue's load of the row and its list of files
delete_issue_load(w, id) ==
  /\ Free(w)
  /\ id \in DOMAIN issues
  /\ workers' = [workers EXCEPT ![w] =
       [Idle EXCEPT !.pc = "delete_files", !.id = id,
                    !.issue = issues[id], !.loaded = issues[id]]]
  /\ overlap' = Overlap(w, id)
  /\ started' = started + 1
  /\ UNCHANGED <<issues, uploads, uuids, now, patches, last, resp>>

\* delete_issue's loop of os.remove
delete_issue_files(w) ==
  /\ workers[w].pc = "delete_files"
  /\ uploads' = RemoveFiles(uploads, Range(attachments_of(workers[w].issue)))
  /\ workers' = [workers EXCEPT ![w].pc = "delete_commit"]
  /\ UNCHANGED <<issues, uuids, now, patches, last, resp, overlap, started>>

\* delete_issue's DELETE and commit; a row already gone matches nothing
delete_issue_commit(w) ==
  /\ workers[w].pc = "delete_commit"
  /\ issues' = DeleteRow(issues, workers[w].id)
  /\ workers' = [workers EXCEPT ![w] = Idle]
  /\ UNCHANGED <<uploads, uuids, now, patches, last, resp, overlap, started>>

\* delete_attachment to files.remove: the row is loaded and the name taken
\* off the session's list; an unlisted name ends the request here
delete_attachment_load(w, id, filename) ==
  /\ Free(w)
  /\ id \in DOMAIN issues
  /\ Listed(issues[id], filename)
  /\ workers' = [workers EXCEPT ![w] =
       [Idle EXCEPT !.pc = "detach_commit", !.id = id,
                    !.filename = filename, !.loaded = issues[id],
                    !.issue = [issues[id] EXCEPT !.attachments =
                      json_dumps(ListRemove(attachments_of(issues[id]),
                                            filename))]]]
  /\ overlap' = Overlap(w, id)
  /\ started' = started + 1
  /\ UNCHANGED <<issues, uploads, uuids, now, patches, last, resp>>

\* delete_attachment's commit; with the row gone the commit raises and the
\* handler ends before os.remove
delete_attachment_commit(w) ==
  /\ workers[w].pc = "detach_commit"
  /\ issues' = CommitUpdate(issues, workers[w].id, workers[w].loaded,
                            workers[w].issue)
  /\ workers' = [workers EXCEPT ![w] =
       IF workers[w].id \in DOMAIN issues
         THEN [@ EXCEPT !.pc = "detach_remove"] ELSE Idle]
  /\ UNCHANGED <<uploads, uuids, now, patches, last, resp, overlap, started>>

\* delete_attachment's os.remove
delete_attachment_remove(w) ==
  /\ workers[w].pc = "detach_remove"
  /\ uploads' = RemoveFiles(uploads, {workers[w].filename})
  /\ workers' = [workers EXCEPT ![w] = Idle]
  /\ UNCHANGED <<issues, uuids, now, patches, last, resp, overlap, started>>

NextConc ==
  \/ \E w \in Workers, r \in ConcCreates : add_issue_save(w, r.data, r.files)
  \/ \E w \in Workers : add_issue_commit(w)
  \/ \E w \in Workers, id \in Ids, r \in ConcPatches :
       update_issue_load(w, id, r.data, r.files)
  \/ \E w \in Workers : update_issue_save(w)
  \/ \E w \in Workers : update_issue_commit(w)
  \/ \E w \in Workers, id \in Ids : delete_issue_load(w, id)
  \/ \E w \in Workers : delete_issue_files(w)
  \/ \E w \in Workers : delete_issue_commit(w)
  \/ \E w \in Workers, id \in Ids, filename \in Filenames :
       delete_attachment_load(w, id, filename)
  \/ \E w \in Workers : delete_attachment_commit(w)
  \/ \E w \in Workers : delete_attachment_remove(w)

SpecConc == InitConc /\ [][NextConc]_vars

\* ------------------------------------------------------------ claims
\* the sets and limits the documentation states
TrackSet ==
  { <<"A","P">>, <<"R","P">>, <<"C","o","m","m","o","n">>,
    <<"L","I">>, <<"E","S">> }
StatusSet == { Open, Fixed, <<"D","e","p","l","o","y","e","d">>, Closed }

Rows == {issues[id] : id \in DOMAIN issues}

\* the issues that list filename f, once for each place in their lists
Listings(f) ==
  UNION { { <<id, k>> : k \in { j \in 1..Len(attachments_of(issues[id])) :
                                 attachments_of(issues[id])[j] = f } } :
          id \in DOMAIN issues }

\* C1: with requests handled one at a time, every filename an issue lists
\* is a file of the upload folder, and every file of the upload folder is
\* listed once, by one issue.
AttachmentsMatchStore ==
  /\ \A issue \in Rows : Range(attachments_of(issue)) \subseteq uploads
  /\ \A f \in uploads : Cardinality(Listings(f)) = 1

\* C1's case: files were saved by a create and by an update, one of them
\* was detached or deleted with its issue, and a listed file remains
AttachmentsExercised ==
  /\ patches > 0
  /\ Cardinality(DOMAIN issues) = 2
  /\ Cardinality(uploads) < uuids
  /\ \E issue \in Rows :
       issue.assignee = <<"y">> /\ Len(attachments_of(issue)) = 1

\* C2: every persisted issue's track is one of the five tracks.
TrackAlwaysAllowed == \A issue \in Rows : issue.track \in TrackSet

\* C3: every persisted issue's summary is non-empty and at most 250
\* characters long.
SummaryAlwaysBounded ==
  \A issue \in Rows : Len(issue.summary) >= 1 /\ Len(issue.summary) <= 250

\* the PATCH requests of SpecFields
FieldUpdates ==
  { [body |-> "form", data |-> r.data, files |-> r.files] :
      r \in FieldPatches }
    \cup { [body |-> "json", data |-> d, files |-> <<>>] : d \in PatchJson }

\* C4: every persisted issue's status is one of the four statuses: a create
\* whose form has no status stores Open, a create whose status is not one
\* of the four is answered 400, and an update that supplies a status and
\* is answered 200 has stored that status, one of the four.
StatusAlwaysAllowed ==
  [][ /\ \A id \in DOMAIN issues' : issues'[id].status \in StatusSet
      /\ last'.op = "add_issue" =>
           \A r \in FieldCreates :
             /\ ( /\ "status" \notin DOMAIN r.data
                  /\ resp'.code = 201
                  /\ add_issue(r.data, r.files) )
                  => resp'.body.status = Open
             /\ ( /\ Field(r.data, "status", Open) \notin StatusSet
                  /\ add_issue(r.data, r.files) )
                  => resp'.code = 400
      /\ (last'.op = "update_issue" /\ resp'.code = 200) =>
           \A u \in FieldUpdates :
             ( /\ "status" \in DOMAIN u.data
               /\ update_issue(last'.id, u.body, u.data, u.files) )
               => /\ issues'[last'.id].status = u.data["status"]
                  /\ u.data["status"] \in StatusSet ]_vars

\* C4's case: a create defaulted the status and an update stored another
StatusExercised ==
  /\ last.op = "update_issue" /\ resp.code = 200
  /\ \E a, b \in Rows : a.status = Open /\ b.status = Closed

\* what the documentation calls a create failing validation, on the fields
\* as add_issue reads them: stripped, an absent or empty status being Open
FailsValidation(r) ==
  \/ Field(r.data, "track", <<>>) \notin TrackSet
  \/ Field(r.data, "status", Open) \notin StatusSet
  \/ Len(Field(r.data, "summary", <<>>)) = 0
  \/ Len(Field(r.data, "summary", <<>>)) > 250
  \/ Len(r.files) > 5

\* C5: a create that fails validation is answered 400, adds no row and
\* writes no file.
CreateRejectedWhole ==
  [][ last'.op = "add_issue" =>
        \A r \in FieldCreates :
          (FailsValidation(r) /\ add_issue(r.data, r.files))
            => /\ resp'.code = 400
               /\ issues' = issues
               /\ uploads' = uploads ]_vars

\* C5's case: a create that carried files was refused while rows and files
\* existed
CreateRejected ==
  /\ last.op = "add_issue" /\ resp.code = 400
  /\ resp.body = "Max 5 attachments allowed"
  /\ issues # << >> /\ uploads # {}

\* C6: a PATCH of an existing issue whose status is not one of the four is
\* answered 400, changes no row and writes no file, whatever other fields
\* and files it carries.
BadStatusPatchRejected ==
  [][ (last'.op = "update_issue" /\ last'.id \in DOMAIN issues) =>
        \A u \in FieldUpdates :
          ( /\ "status" \in DOMAIN u.data
            /\ u.data["status"] \notin StatusSet
            /\ update_issue(last'.id, u.body, u.data, u.files) )
            => /\ resp'.code = 400
               /\ issues' = issues
               /\ uploads' = uploads ]_vars

\* C6's case: a PATCH was refused for its status
PatchRejected ==
  /\ last.op = "update_issue" /\ last.id \in DOMAIN issues
  /\ resp.code = 400 /\ resp.body = "Invalid status"

AllFields == Range(UPDATABLE)

\* C7: a PATCH of issue id answered 200 leaves every field the request did
\* not supply as it was, with id and created_at, and the attachments when
\* it carried no files; every other row and every stored file stays.
PatchChangesOnlySupplied ==
  [][ (last'.op = "update_issue" /\ resp'.code = 200) =>
        LET id == last'.id
        IN  \A u \in FieldUpdates :
              update_issue(id, u.body, u.data, u.files)
                => /\ DOMAIN issues' = DOMAIN issues
                   /\ \A f \in AllFields \ DOMAIN u.data :
                        issues'[id][f] = issues[id][f]
                   /\ issues'[id].id = issues[id].id
                   /\ issues'[id].created_at = issues[id].created_at
                   /\ u.files = <<>>
                        => issues'[id].attachments = issues[id].attachments
                   /\ \A j \in DOMAIN issues \ {id} : issues'[j] = issues[j]
                   /\ uploads \subseteq uploads' ]_vars

\* C7's case: a PATCH that supplied only the assignee was answered 200, on
\* a row with other fields set and a file, beside another row
PatchedPartly ==
  /\ last.op = "update_issue" /\ resp.code = 200
  /\ Cardinality(DOMAIN issues) = 2
  /\ resp.body.assignee = <<"y">>
  /\ resp.body.raised_by = <<"r">>
  /\ resp.body.attachments # <<>>

\* C8: deleting an existing issue removes its row and every file its
\* attachments name, and leaves the other rows and the other files; no
\* later step writes a file under a name generated before, only GET
\* /uploads of a name that is stored is answered other than 404, and GET
\* /issues lists the rows there are.
DeleteRemovesFiles ==
  [][ /\ (last'.op = "delete_issue" /\ last'.id \in DOMAIN issues) =>
           LET id == last'.id
           IN  delete_issue(id) =>
                 /\ DOMAIN issues' = DOMAIN issues \ {id}
                 /\ \A j \in DOMAIN issues' : issues'[j] = issues[j]
                 /\ uploads' = uploads \ Range(attachments_of(issues[id]))
      /\ \A f \in uploads' \ uploads : f \notin Filenames
      /\ (last'.op = "uploaded_file" /\ resp'.code # 404) =>
           \A f \in Filenames \ uploads : ~uploaded_file(f)
      /\ (last'.op = "get_issues" /\ get_issues) =>
           {resp'.body[k].id : k \in 1..Len(resp'.body)} = DOMAIN issues
    ]_vars

\* C8's case: an issue that listed a file was deleted while another issue
\* kept its own
DeletedWithFiles ==
  /\ last.op = "delete_issue" /\ resp.code = 200
  /\ now = 2 /\ uuids = 2
  /\ Cardinality(DOMAIN issues) = 1
  /\ Cardinality(uploads) = 1
  /\ \A issue \in Rows :
       issue.assignee = <<>> /\ Range(attachments_of(issue)) = uploads

\* C9: detaching a filename that existing issue id does not list is
\* answered 200 with the record as it was, changes no row and removes no
\* file, also when another issue lists that filename: a detach step that
\* does otherwise is the detach of no unlisted filename.
DetachUnlistedNoOp ==
  [][ (last'.op = "delete_attachment" /\ last'.id \in DOMAIN issues) =>
        LET id == last'.id
        IN  \/ /\ resp' = Response(200, "issue", to_dict(issues[id]))
               /\ issues' = issues
               /\ uploads' = uploads
            \/ \A f \in Filenames \ Range(attachments_of(issues[id])) :
                 ~delete_attachment(id, f) ]_vars

\* C9's case: a detach on an issue that lists nothing was answered with its
\* record while every file generated is still stored, listed by another
\* issue
DetachedNothing ==
  /\ last.op = "delete_attachment" /\ resp.code = 200
  /\ resp.body.attachments = <<>>
  /\ uuids = 2 /\ Cardinality(uploads) = 2
  /\ Cardinality(DOMAIN issues) = 2

\* every request has finished
Quiescent == \A w \in Workers : workers[w].pc = "idle"

\* no file of the upload folder is unlisted and no listed name lacks its file
NoOrphanNoDangling ==
  /\ \A f \in uploads : \E issue \in Rows : f \in Range(attachments_of(issue))
  /\ \A issue \in Rows : \A f \in Range(attachments_of(issue)) : f \in uploads

\* C10 as stated: once every request has finished, under any interleaving
\* of the handlers' steps, no stored file is unlisted and no listed name
\* lacks its file.
ConsistentAfterRaces == Quiescent => NoOrphanNoDangling

\* C10 as amended: the same, for runs in which no two requests in flight
\* together named the same issue.
ConsistentWithoutRaces ==
  (Quiescent /\ overlap # "same") => NoOrphanNoDangling

\* C10's case: requests on different issues ran together and have
\* finished, an update having added a file and a detach or delete having
\* removed one
RanTogetherApart ==
  /\ Quiescent /\ overlap = "disjoint"
  /\ patches > 0
  /\ uploads # {} /\ Cardinality(uploads) < uuids
  /\ \E issue \in Rows : issue.assignee = <<"y">>

=============================================================================
